---- MODULE Spec2Model ----
(***************************************************************************)
(* Model of the request sender (local_modules/request-sender.js):          *)
(* single-flight lock, success/fail counters, interval repeater and the    *)
(* events it emits.  Strings that are measured or serialized (payload      *)
(* keys and values, request bodies) are sequences of one-character         *)
(* strings; names that are only compared (host, event names, error codes)  *)
(* are plain strings.                                                      *)
(*                                                                         *)
(* Transport (node http / follow-redirects) is the environment: every      *)
(* request created by http.request gets its 'socket' event first and then  *)
(* exactly one resolution, a response or an 'error'; request.abort() of a  *)
(* request without response surfaces later as an 'error' (ECONNRESET).     *)
(* That 'error' is emitted when the destroyed socket closes, in the event  *)
(* loop turn of the abort, while a timer set in that turn fires in a later *)
(* one: the stopRepeater deferred by a timeout runs after the 'error' of   *)
(* the request the timeout aborted.                                        *)
(*                                                                         *)
(* A listener is its event name and whether its callback throws; an        *)
(* exception leaves callListeners and the handler that called it at once.  *)
(* Only SpecListeners registers listeners; the other specifications run    *)
(* the engine without any.                                                 *)
(***************************************************************************)
EXTENDS Integers, Sequences, FiniteSets, TLC

VARIABLES
    lockRequests,     \* lockRequests
    intervalID,       \* intervalID: 0 is null, else index into timers
    successCount,
    failCount,
    isRepeating,
    ignoreErrors,
    ignoreTimeout,
    requestTimeout,
    dataEncoderType,
    followRedirects,
    maxRedirects,
    requestData,      \* payload template: sequence of <<key, template>>
    requestOptions,   \* function from option names to values
    timers,           \* one record per setInterval call of startRepeater
    inflight,         \* requests created by http.request, not yet resolved
    deferred,         \* pending setTimeout(stopRepeater, 1) calls
    emitted,          \* events passed to callListeners by the last step
    lastOp,           \* the operation or callback the last step ran
    returned,         \* what the last call returned: "true", "false", "undefined"
    listeners,        \* listeners: sequence of [message, throws]
    invoked,          \* indices of the listeners the last step called, in order
    hung,             \* a call entered a loop that never ends
    input,            \* argument of the library function under study
    output,           \* what that function returned for input
    cli               \* the command-line layer: its listeners and callbacks

vars == <<lockRequests, intervalID, successCount, failCount, isRepeating,
          ignoreErrors, ignoreTimeout, requestTimeout, dataEncoderType,
          followRedirects, maxRedirects, requestData, requestOptions,
          timers, inflight, deferred, emitted, lastOp, returned, listeners,
          invoked, hung, input, output, cli>>

\* variables no handler of the engine writes except its own setter
config == <<ignoreErrors, ignoreTimeout, requestTimeout, dataEncoderType,
            followRedirects, maxRedirects, requestData>>

---------------------------------------------------------------------------
\* Bounds

MaxStarts == 1      \* startRepeater calls per behaviour of Spec
MaxCount == 2       \* largest repeat count passed to startRepeater
MaxRequests == 2    \* requests resolved or in flight since the last reset
MaxDeferred == 1    \* pending deferred stopRepeater calls
MaxListeners == 2   \* listeners registered with on()
MaxKeys == 2        \* most keys of an object given to encode
MaxCliArgs == 3     \* longest argument list of a command
MaxCommands == 1    \* sendrequest and startrepeater commands per behaviour
MaxArg == 2         \* largest number written as a macro argument

---------------------------------------------------------------------------
\* Program constants

\* mutant: every status from 400 on is an error
HTTP_ERROR_CODES_From400 == 400..599

HTTP_ERROR_CODES == {400, 401, 403, 404, 405, 500, 502, 503, 504}

DefaultRequestTimeout == 5000

DefaultMaxRedirects == 10

DefaultPort == 80

\* status codes the transport may answer with
Statuses == {200, 301, 404, 418, 500, 501}

\* err.code of a transport error that is not caused by request.abort()
ErrorCodes == {"ECONNREFUSED", "ENOTFOUND"}

Intervals == {1000}

---------------------------------------------------------------------------
\* Strings as sequences of characters

Text == <<"t", "e", "x", "t">>

\* payloads passed to sendRequest by the caller: sequences of <<key, value>>
ManualData == { <<>>, << <<Text, <<"h", "é">>>> >> }

\* payload templates passed to setRequestData
Templates ==
    { <<>>,
      << <<Text, <<"a", " ", "b">>>> >>,
      << <<<<"k">>, <<"$", "t", "e", "x", "t", "(", "'", "x", "'", ",", "7", ")">>>>,
         <<Text, <<"o", "k">>>> >> }

\* templates whose macro has an unknown name or a wrong number of arguments
MacroTemplates ==
    { << <<Text, <<"$", "f", "o", "o", "(", ")">>>> >>,
      << <<Text, <<"$", "s", "t", "r", "(", "1", ")">>>> >>,
      << <<<<"k">>, <<"o", "k">>>>,
         <<Text, <<"$", "m", "a", "i", "l", "(", "'", "x", "'", ")">>>> >> }

\* event names a caller listens to
ListenerMessages == {"request-start", "request-success", "request-fail"}

Lower == {"a", "b", "c", "d", "e", "f", "g", "h", "i", "j", "k", "l", "m",
          "n", "o", "p", "q", "r", "s", "t", "u", "v", "w", "x", "y", "z"}

Upper == {"A", "B", "C", "D", "E", "F", "G", "H", "I", "J", "K", "L", "M",
          "N", "O", "P", "Q", "R", "S", "T", "U", "V", "W", "X", "Y", "Z"}

Digits == {"0", "1", "2", "3", "4", "5", "6", "7", "8", "9"}

RECURSIVE Concat(_)
Concat(ss) == IF ss = <<>> THEN <<>> ELSE Head(ss) \o Concat(Tail(ss))

---------------------------------------------------------------------------
\* request-data-encoder.js

Unreserved == Lower \cup Upper \cup Digits \cup {"-", "_", ".", "!", "~", "*", "'", "(", ")"}

\* querystring.escape of one character of the model's alphabet
QsEscapeChar(c) ==
    IF c \in Unreserved THEN <<c>>
    ELSE IF c = " " THEN <<"%", "2", "0">>
    ELSE IF c = "\"" THEN <<"%", "2", "2">>
    ELSE IF c = "$" THEN <<"%", "2", "4">>
    ELSE IF c = "é" THEN <<"%", "C", "3", "%", "A", "9">>
    ELSE <<c>>

QsEscape(str) == Concat([i \in 1..Len(str) |-> QsEscapeChar(str[i])])

\* querystring.stringify: key=value pairs joined by &, in insertion order
QsStringify(data) ==
    Concat([i \in 1..Len(data) |->
              (IF i > 1 THEN <<"&">> ELSE <<>>)
              \o QsEscape(data[i][1]) \o <<"=">> \o QsEscape(data[i][2])])

JsonQuoteChar(c) ==
    IF c = "\"" THEN <<"\\", "\"">>
    ELSE IF c = "\\" THEN <<"\\", "\\">>
    ELSE <<c>>

JsonQuote(str) ==
    <<"\"">> \o Concat([i \in 1..Len(str) |-> JsonQuoteChar(str[i])]) \o <<"\"">>

\* JSON.stringify of an object whose values are strings
JsonStringify(data) ==
    <<"{">>
    \o Concat([i \in 1..Len(data) |->
                 (IF i > 1 THEN <<",">> ELSE <<>>)
                 \o JsonQuote(data[i][1]) \o <<":">> \o JsonQuote(data[i][2])])
    \o <<"}">>

HasKey(data, key) == \E i \in 1..Len(data) : data[i][1] = key

Get(data, key) == data[CHOOSE i \in 1..Len(data) : data[i][1] = key][2]

\* the text encoder answering only for an object whose single key is text
TextEncodeOnlyKey(data) ==
    IF Len(data) = 1 /\ data[1][1] = Text THEN data[1][2] ELSE <<>>

TextEncode(data) == IF HasKey(data, Text) THEN Get(data, Text) ELSE <<>>

ValidEncoders == {"querystring", "json", "text"}

encoderExists(type) == type \in ValidEncoders

encode(type, data) ==
    IF encoderExists(type)
    THEN CASE type = "querystring" -> QsStringify(data)
           [] type = "json" -> JsonStringify(data)
           [] type = "text" -> TextEncode(data)
    ELSE <<>>

getValidEncoders == ValidEncoders

\* encoder names a caller may pass to setDataEncoder
EncoderNames == ValidEncoders \cup {"xml", "toString"}

\* keys and values of the objects given to encode
EncodeKeys == {Text, <<"k">>, <<"T", "e", "x", "t">>}

EncodeValues == {<<>>, <<"h", "i">>, <<"a", " ", "b">>}

\* objects of at most MaxKeys keys, no key twice
EncodeData ==
    UNION {{d \in [1..n -> EncodeKeys \X EncodeValues] :
              \A i, j \in 1..n : d[i][1] = d[j][1] => i = j} : n \in 0..MaxKeys}

---------------------------------------------------------------------------
\* syntax-processor.js

\* \w of a JavaScript regular expression
WordChars == Lower \cup Upper \cup Digits \cup {"_"}

\* \s, as far as the model's alphabet has it
SpaceChars == {" "}

VALID_CHARS == Lower

VALID_DIGITS == Digits

VALID_MAILDOMAINS ==
    { <<"a", "o", "l", ".", "c", "o", "m">>,
      <<"a", "t", "t", ".", "n", "e", "t">>,
      <<"c", "o", "m", "c", "a", "s", "t", ".", "n", "e", "t">>,
      <<"f", "a", "c", "e", "b", "o", "o", "k", ".", "c", "o", "m">>,
      <<"g", "m", "a", "i", "l", ".", "c", "o", "m">>,
      <<"g", "m", "x", ".", "c", "o", "m">>,
      <<"g", "o", "o", "g", "l", "e", "m", "a", "i", "l", ".", "c", "o", "m">>,
      <<"g", "o", "o", "g", "l", "e", ".", "c", "o", "m">>,
      <<"h", "o", "t", "m", "a", "i", "l", ".", "c", "o", "m">>,
      <<"h", "o", "t", "m", "a", "i", "l", ".", "c", "o", ".", "u", "k">>,
      <<"m", "a", "c", ".", "c", "o", "m">>,
      <<"m", "e", ".", "c", "o", "m">>,
      <<"m", "a", "i", "l", ".", "c", "o", "m">>,
      <<"m", "s", "n", ".", "c", "o", "m">>,
      <<"l", "i", "v", "e", ".", "c", "o", "m">>,
      <<"s", "b", "c", "g", "l", "o", "b", "a", "l", ".", "n", "e", "t">>,
      <<"v", "e", "r", "i", "z", "o", "n", ".", "n", "e", "t">>,
      <<"y", "a", "h", "o", "o", ".", "c", "o", "m">>,
      <<"y", "a", "h", "o", "o", ".", "c", "o", ".", "u", "k">> }

\* first index >= from of str whose character satisfies the class, or 0
FirstIn(str, from, class) ==
    IF \E k \in from..Len(str) : str[k] \in class
    THEN CHOOSE k \in from..Len(str) :
            /\ str[k] \in class
            /\ \A j \in from..(k - 1) : str[j] \notin class
    ELSE 0

\* first index >= from of str whose character is outside the class, or Len + 1
FirstNotIn(str, from, class) ==
    IF \E k \in from..Len(str) : str[k] \notin class
    THEN CHOOSE k \in from..Len(str) :
            /\ str[k] \notin class
            /\ \A j \in from..(k - 1) : str[j] \in class
    ELSE Len(str) + 1

\* REGEX_FUNCTION = /\$(\w+)\(([^\(\)]*)\)/ tried at index i: the match
\* [open, close] (indices of the two parentheses), or <<>> when it fails
FunctionAt(str, i) ==
    IF i > Len(str) \/ str[i] # "$" THEN <<>>
    ELSE LET open == FirstNotIn(str, i + 1, WordChars)
         IN IF open = i + 1 \/ open > Len(str) \/ str[open] # "(" THEN <<>>
            ELSE LET close == FirstIn(str, open + 1, {"(", ")"})
                 IN IF close = 0 \/ str[close] # ")" THEN <<>>
                    ELSE <<open, close>>

\* REGEX_FUNCTION.exec(str): the leftmost match as [index, open, close],
\* or <<>> for null
FunctionExec(str) ==
    IF \E i \in 1..Len(str) : FunctionAt(str, i) # <<>>
    THEN LET i == CHOOSE k \in 1..Len(str) :
                     /\ FunctionAt(str, k) # <<>>
                     /\ \A j \in 1..(k - 1) : FunctionAt(str, j) = <<>>
         IN <<i>> \o FunctionAt(str, i)
    ELSE <<>>

\* ('[^']*'|\d+) tried at index p of str: the index after the token, or 0
ArgTokenEnd(str, p) ==
    IF p > Len(str) THEN 0
    ELSE IF str[p] = "'"
         THEN LET q == FirstIn(str, p + 1, {"'"})
              IN IF q = 0 THEN 0 ELSE q + 1
         ELSE IF str[p] \in Digits THEN FirstNotIn(str, p, Digits)
              ELSE 0

RECURSIVE Number(_)
\* Number(argStr) of a digit sequence
Number(ds) ==
    IF ds = <<>> THEN 0
    ELSE 10 * Number(SubSeq(ds, 1, Len(ds) - 1))
         + (CHOOSE d \in 0..9 : ToString(d) = ds[Len(ds)])

StripQuotes(str) == SelectSeq(str, LAMBDA c : c # "'")

\* one parsed argument: a string (quotes removed) or a number
ArgValue(argStr) ==
    IF argStr[1] = "'"
    THEN [num |-> FALSE, n |-> 0, s |-> StripQuotes(argStr)]
    ELSE [num |-> TRUE, n |-> Number(argStr), s |-> <<>>]

RECURSIVE ParseArgs(_, _)
\* the loop over REGEX_ARG = /(\'[^\']*\'|\d+)\,?\s*/g from lastIndex:
\* exec finds the next match at or after lastIndex, skipping what matches not
ParseArgs(str, lastIndex) ==
    IF \E p \in lastIndex..Len(str) : ArgTokenEnd(str, p) # 0
    THEN LET p == CHOOSE k \in lastIndex..Len(str) :
                     /\ ArgTokenEnd(str, k) # 0
                     /\ \A j \in lastIndex..(k - 1) : ArgTokenEnd(str, j) = 0
             tokEnd == ArgTokenEnd(str, p)
             afterComma == IF tokEnd <= Len(str) /\ str[tokEnd] = ","
                           THEN tokEnd + 1 ELSE tokEnd
             next == FirstNotIn(str, afterComma, SpaceChars)
         IN <<ArgValue(SubSeq(str, p, tokEnd - 1))>> \o ParseArgs(str, next)
    ELSE <<>>

\* every string of the given length over the alphabet
RECURSIVE StringsOf(_, _)
StringsOf(alphabet, len) ==
    IF len <= 0 THEN {<<>>}
    ELSE {<<c>> \o t : c \in alphabet, t \in StringsOf(alphabet, len - 1)}

\* a length drawn from min to max, both included
getRandomLengthInclusive(min, max) ==
    IF max >= min THEN min..max ELSE max..min

\* getRandomLength(min, max) = min + floor(random() * (max - min)) for every
\* value of random() in [0, 1)
getRandomLength(min, max) ==
    IF max > min THEN min..(max - 1)
    ELSE IF max = min THEN {min}
    ELSE max..min

Undefined == <<"u", "n", "d", "e", "f", "i", "n", "e", "d">>

ExtensionNames == {"str", "num", "text", "mail"}

Name(chars) ==
    IF chars = <<"s", "t", "r">> THEN "str"
    ELSE IF chars = <<"n", "u", "m">> THEN "num"
    ELSE IF chars = Text THEN "text"
    ELSE IF chars = <<"m", "a", "i", "l">> THEN "mail"
    ELSE "?"

RECURSIVE NumText(_)
\* a number concatenated into a string: its decimal digits
NumText(n) ==
    IF n < 10 THEN <<ToString(n)>>
    ELSE NumText(n \div 10) \o <<ToString(n % 10)>>

\* processExtension(func, args): the set of possible results, or {} for null
\* (str and num are modelled for numeric arguments)
processExtension(func, args) ==
    IF Name(func) \notin ExtensionNames THEN {}
    ELSE CASE Name(func) = "str" ->
                IF Len(args) # 2 THEN {}
                ELSE UNION {StringsOf(VALID_CHARS, l) :
                              l \in getRandomLength(args[1].n, args[2].n)}
           [] Name(func) = "num" ->
                IF Len(args) # 2 THEN {}
                ELSE UNION {StringsOf(VALID_DIGITS, l) :
                              l \in getRandomLength(args[1].n, args[2].n)}
           [] Name(func) = "text" ->
                IF Len(args) = 0 THEN {Undefined}
                ELSE {IF args[i].num THEN NumText(args[i].n) ELSE args[i].s :
                        i \in 1..Len(args)}
           [] Name(func) = "mail" ->
                IF Len(args) # 0 THEN {} ELSE VALID_MAILDOMAINS

replaceRange(str, start, end, substitute) ==
    SubSeq(str, 1, start - 1) \o substitute \o SubSeq(str, end, Len(str))

Returned(str) == [hang |-> FALSE, result |-> str]

\* the while loop runs forever: the same match is found again and again
Hangs == [hang |-> TRUE, result |-> <<>>]

\* a single pass: the leftmost call is replaced and the rest is not scanned
processSyntaxOnePass(str) ==
    LET fMatch == FunctionExec(str)
    IN IF fMatch = <<>> THEN {Returned(str)}
       ELSE LET fIndex == fMatch[1]
                func == SubSeq(str, fIndex + 1, fMatch[2] - 1)
                args == ParseArgs(SubSeq(str, fMatch[2] + 1, fMatch[3] - 1), 1)
                funcResult == processExtension(func, args)
            IN IF funcResult = {} THEN {Hangs}
               ELSE {Returned(replaceRange(str, fIndex, fMatch[3] + 1, r)) :
                       r \in funcResult}

RECURSIVE processSyntax(_)
\* every outcome of processSyntax(str)
processSyntax(str) ==
    LET fMatch == FunctionExec(str)
    IN IF fMatch = <<>> THEN {Returned(str)}
       ELSE LET fIndex == fMatch[1]
                func == SubSeq(str, fIndex + 1, fMatch[2] - 1)
                args == ParseArgs(SubSeq(str, fMatch[2] + 1, fMatch[3] - 1), 1)
                funcResult == processExtension(func, args)
            IN IF funcResult = {} THEN {Hangs}
               ELSE UNION {processSyntax(replaceRange(str, fIndex,
                                                      fMatch[3] + 1, r)) :
                             r \in funcResult}

\* strings given to processSyntax

\* "$name(a,b)"
Call2(name, a, b) ==
    <<"$">> \o name \o <<"(">> \o NumText(a) \o <<",">> \o NumText(b) \o <<")">>

\* $str and $num with two numbers
LengthCalls ==
    {Call2(name, a, b) : name \in {<<"s", "t", "r">>, <<"n", "u", "m">>}, a \in 0..MaxArg, b \in 0..MaxArg}

MailCall == <<"$", "m", "a", "i", "l", "(", ")">>

\* calls processExtension rejects: unknown name, wrong number of arguments
BadCalls == {<<"$", "f", "o", "o", "(", ")">>, <<"$", "s", "t", "r", "(", "1", ")">>, <<"$", "m", "a", "i", "l", "(", "'", "x", "'", ")">>}

\* a rejected call alone, after and before a call of a known macro
BadMacroInputs ==
    BadCalls \cup {MailCall \o bad : bad \in BadCalls}
             \cup {bad \o MailCall : bad \in BadCalls}

\* argument lists that are no comma-separated list of quoted strings and
\* unsigned integers
MalformedCalls == {<<"$", "s", "t", "r", "(", "a", "1", ",", "b", "2", ")">>, <<"$", "m", "a", "i", "l", "(", "f", "o", "o", ")">>, <<"$", "s", "t", "r", "(", "-", "1", ",", "2", ")">>, <<"$", "t", "e", "x", "t", "(", "'", "a", ")">>}

\* words written as quoted arguments of $text
Words == {<<"x">>, <<"y", "o">>}

\* numbers written as unquoted arguments of $text
Numerals == {<<"7">>}

\* the argument list of $text written out: quoted words and numbers
RECURSIVE ArgList(_)
ArgList(items) ==
    IF items = <<>> THEN <<>>
    ELSE (IF Head(items) \in Words THEN <<"'">> \o Head(items) \o <<"'">>
          ELSE Head(items))
         \o (IF Len(items) > 1 THEN <<",">> ELSE <<>>)
         \o ArgList(Tail(items))

\* every list of at most MaxArg items
ItemLists ==
    UNION {[1..n -> Words \cup Numerals] : n \in 0..MaxArg}

TextCall(items) == <<"$", "t", "e", "x", "t", "(">> \o ArgList(items) \o <<")">>

TextCalls == {TextCall(items) : items \in ItemLists}

\* a substitution that completes a macro call, and text without any macro
OtherInputs == {<<"$", "t", "e", "x", "t", "(", "'", "$", "m", "a", "i", "l", "'", ")", "(", ")">>, <<"a", " ", "b">>, <<"$", "m", "a", "i", "l", "(", ")", "@", "$", "n", "u", "m", "(", "1", ",", "2", ")">>}

SyntaxInputs ==
    LengthCalls \cup BadMacroInputs \cup MalformedCalls \cup TextCalls
                \cup OtherInputs

---------------------------------------------------------------------------
\* Engine state as a record, so that handlers compose as the code calls them

\* The command-line layer (app-cli.js) listens with once(): a listener that
\* is called for the next event of its name and then removed.  The engine
\* source at hand exports on() only; once() is taken to deliver like on().
\*   stopOnce   listeners of startrepeater waiting for repeater-stop
\*   aw[name]   listeners of awaitRequestFinish waiting for the event name
\*   completed  calls made to the completion callbacks of its commands
\*   reported   the last command logged an error message
\*   threw      the last command ended with an exception
\*   sigint     the SIGINT listener of startrepeater is registered
\*   commands   sendrequest and startrepeater commands entered so far
NoAwait == [name \in {"request-error", "request-success", "request-fail"} |-> 0]

CliIdle == [stopOnce |-> 0, aw |-> NoAwait, completed |-> 0,
            reported |-> FALSE, threw |-> FALSE, sigint |-> FALSE,
            commands |-> 0]

\* awaitRequestFinish(callback): one once-listener per terminal event
awaitRequestFinish(c) ==
    [c EXCEPT !.aw = [name \in DOMAIN c.aw |-> c.aw[name] + 1]]

\* the once-listeners of the command-line layer called for one event, the
\* lock being as locked says: the listener of startrepeater waits for the
\* request in flight when the engine is locked and completes otherwise
ReactTo(c, ev, locked) ==
    IF ev.name = "repeater-stop" /\ c.stopOnce > 0
    THEN IF locked
         THEN [c EXCEPT !.stopOnce = 0,
                        !.aw = [name \in DOMAIN @ |-> @[name] + c.stopOnce]]
         ELSE [c EXCEPT !.stopOnce = 0, !.completed = @ + c.stopOnce]
    ELSE IF ev.name \in DOMAIN c.aw /\ c.aw[ev.name] > 0
         THEN [c EXCEPT !.aw[ev.name] = 0, !.completed = @ + c.aw[ev.name]]
         ELSE c

RECURSIVE React(_, _, _)
\* the command-line layer after the events of one step, in order; no handler
\* of the engine changes the lock before it emits repeater-stop or a
\* terminal event
React(c, events, locked) ==
    IF events = <<>> \/ (c.stopOnce = 0 /\ c.aw = NoAwait) THEN c
    ELSE React(ReactTo(c, Head(events), locked), Tail(events), locked)

Cur == [lockRequests |-> lockRequests, intervalID |-> intervalID,
        successCount |-> successCount, failCount |-> failCount,
        isRepeating |-> isRepeating, requestOptions |-> requestOptions,
        timers |-> timers, inflight |-> inflight, deferred |-> deferred,
        emitted |-> <<>>, invoked |-> <<>>, thrown |-> FALSE]

\* the step of a call or callback that ran to its end or to an exception;
\* nothing runs while an earlier call has not returned; c is the command-line
\* layer as the call found it, before the events of the step reach it
BecomeWith(e, op, c) ==
    /\ ~hung
    /\ lastOp' = op
    /\ returned' = "undefined"
    /\ \E after \in {e} :
          /\ emitted' = after.emitted
          /\ invoked' = after.invoked
          /\ lockRequests' = after.lockRequests
          /\ intervalID' = after.intervalID
          /\ successCount' = after.successCount
          /\ failCount' = after.failCount
          /\ isRepeating' = after.isRepeating
          /\ requestOptions' = after.requestOptions
          /\ timers' = after.timers
          /\ inflight' = after.inflight
          /\ deferred' = after.deferred
          /\ cli' = React(c, after.emitted, lockRequests)
    /\ UNCHANGED <<listeners, hung, input, output>>

\* a step of the engine that no command of the command-line layer made
Become(e, op) == BecomeWith(e, op, cli)

Event(message, data, code, n1, n2) ==
    [name |-> message, data |-> data, code |-> code, n1 |-> n1, n2 |-> n2]

\* indices of the listeners registered for message, in registration order
Matching(message) ==
    SelectSeq([k \in 1..Len(listeners) |-> k],
              LAMBDA k : listeners[k].message = message)

\* the prefix of seq up to and including its first throwing listener
UpToThrow(seq) ==
    LET throwing == {k \in 1..Len(seq) : listeners[seq[k]].throws}
    IN IF throwing = {} THEN seq
       ELSE SubSeq(seq, 1, CHOOSE k \in throwing : \A j \in throwing : k <= j)

\* callListeners: the listeners of `message` run with the arguments, in
\* order, until one throws
callListeners(e, ev) ==
    LET matching == Matching(ev.name)
        ran == UpToThrow(matching)
    IN [e EXCEPT !.emitted = Append(@, ev),
                 !.invoked = @ \o ran,
                 !.thrown = ran # <<>> /\ listeners[ran[Len(ran)]].throws]

\* _.assign(object, source)
Assign(object, source) ==
    [k \in DOMAIN object \cup DOMAIN source |->
        IF k \in DOMAIN source THEN source[k] ELSE object[k]]

\* _.merge(object, source): as _.assign, but the headers objects are merged
Merge(object, source) ==
    [k \in DOMAIN object \cup DOMAIN source |->
        IF k \notin DOMAIN source THEN object[k]
        ELSE IF k = "headers" /\ k \in DOMAIN object
             THEN Assign(object[k], source[k])
             ELSE source[k]]

Remove(seq, i) == SubSeq(seq, 1, i - 1) \o SubSeq(seq, i + 1, Len(seq))

\* mutant: the encoder is assigned before it is looked up
setDataEncoderAssignsFirst(current, encoder) ==
    [dataEncoderType |-> encoder,
     returned |-> IF encoderExists(encoder) THEN "true" ELSE "false"]

\* setDataEncoder: the active encoder after the call and the value returned
setDataEncoder(current, encoder) ==
    IF encoderExists(encoder)
    THEN [dataEncoderType |-> encoder, returned |-> "true"]
    ELSE [dataEncoderType |-> current, returned |-> "false"]

\* setRequestOptions
setRequestOptions(current, options) == Assign(current, options)

DeadTimer == [live |-> FALSE, count |-> 0, requestCount |-> 0]

\* clearInterval(id): the timer never fires again; its closure is garbage
clearInterval(tm, id) == [tm EXCEPT ![id] = DeadTimer]

\* mutant: the counters are reset before repeater-stop is emitted
stopRepeaterResetsFirst(e) ==
    IF e.intervalID # 0
    THEN LET e1 == [e EXCEPT !.isRepeating = FALSE,
                             !.timers = clearInterval(@, e.intervalID),
                             !.successCount = 0, !.failCount = 0]
         IN callListeners(e1, Event("repeater-stop", <<>>, "",
                                    e1.successCount, e1.failCount))
    ELSE e

\* mutant: only successCount is reset
stopRepeaterKeepsFailCount(e) ==
    IF e.intervalID # 0
    THEN LET e1 == [e EXCEPT !.isRepeating = FALSE,
                             !.timers = clearInterval(@, e.intervalID)]
             e2 == callListeners(e1, Event("repeater-stop", <<>>, "",
                                           e1.successCount, e1.failCount))
         IN [e2 EXCEPT !.successCount = 0]
    ELSE e

\* mutant: the lock is released with the timer
stopRepeaterReleasesLock(e) ==
    IF e.intervalID # 0
    THEN LET e1 == [e EXCEPT !.isRepeating = FALSE,
                             !.timers = clearInterval(@, e.intervalID)]
             e2 == callListeners(e1, Event("repeater-stop", <<>>, "",
                                           e1.successCount, e1.failCount))
         IN [e2 EXCEPT !.successCount = 0, !.failCount = 0,
                       !.lockRequests = FALSE]
    ELSE e

stopRepeater(e) ==
    IF e.intervalID # 0
    THEN LET e1 == [e EXCEPT !.isRepeating = FALSE,
                             !.timers = clearInterval(@, e.intervalID)]
             e2 == callListeners(e1, Event("repeater-stop", <<>>, "",
                                           e1.successCount, e1.failCount))
         IN IF e2.thrown THEN e2
            ELSE [e2 EXCEPT !.successCount = 0, !.failCount = 0]
    ELSE e

NewRequest(data, writeData, options) ==
    [data |-> data, body |-> writeData,
     contentLength |-> options["headers"]["Content-Length"],
     sock |-> "none", aborted |-> FALSE]

\* UTF-8 bytes of one character of the model's alphabet
Utf8Bytes(c) == IF c = "é" THEN 2 ELSE 1

RECURSIVE ByteLength(_)
\* Buffer.byteLength(str)
ByteLength(str) ==
    IF str = <<>> THEN 0 ELSE Utf8Bytes(Head(str)) + ByteLength(Tail(str))

\* mutant: a Content-Length header already stored is kept
dispatchKeepsHeader(e, data) ==
    LET e1 == [e EXCEPT !.lockRequests = TRUE]
        e2 == callListeners(e1, Event("request-start", data, "", 0, 0))
        writeData == IF Len(data) > 0
                     THEN encode(dataEncoderType, data) ELSE <<>>
        stored == e2.requestOptions["headers"]
        fixedRequestOptions ==
            Merge(e2.requestOptions,
                  [followAllRedirects |-> followRedirects,
                   maxRedirects |-> maxRedirects,
                   headers |-> [x \in {"Content-Length"} |->
                                   IF x \in DOMAIN stored THEN stored[x]
                                   ELSE ByteLength(writeData)]])
    IN IF e2.thrown THEN e2
       ELSE [e2 EXCEPT !.requestOptions = fixedRequestOptions,
                       !.inflight = Append(@, NewRequest(data, writeData,
                                                         fixedRequestOptions))]

\* sendRequest past the lock check: lock, request-start, encode, http.request
dispatch(e, data) ==
    LET e1 == [e EXCEPT !.lockRequests = TRUE]
        e2 == callListeners(e1, Event("request-start", data, "", 0, 0))
        writeData == IF Len(data) > 0
                     THEN encode(dataEncoderType, data) ELSE <<>>
        fixedRequestOptions ==
            Merge(e2.requestOptions,
                  [followAllRedirects |-> followRedirects,
                   maxRedirects |-> maxRedirects,
                   headers |-> [x \in {"Content-Length"} |->
                                   ByteLength(writeData)]])
    IN IF e2.thrown THEN e2
       ELSE [e2 EXCEPT !.requestOptions = fixedRequestOptions,
                       !.inflight = Append(@, NewRequest(data, writeData,
                                                         fixedRequestOptions))]

\* mutant: the lock is not checked
sendRequestUnlocked(e, data) == dispatch(e, data)

\* mutant: request-start is emitted before the lock is checked
sendRequestEmitFirst(e, data) ==
    IF e.lockRequests
    THEN callListeners(e, Event("request-start", data, "", 0, 0))
    ELSE dispatch(e, data)

sendRequest(e, data) ==
    IF e.lockRequests THEN e ELSE dispatch(e, data)

\* the stored template sent as it is, no macro expanded
MaterializeVerbatim(template) == {template}

RECURSIVE Materialize(_)
\* the loop of autoSendRequest over requestData: every data map it can build
\* when each processSyntax call returns
Materialize(template) ==
    IF template = <<>> THEN {<<>>}
    ELSE {<< <<Head(template)[1], o.result>> >> \o rest :
            o \in {x \in processSyntax(Head(template)[2]) : ~x.hang},
            rest \in Materialize(Tail(template))}

\* the loop of autoSendRequest over requestData can reach a processSyntax
\* call that does not return
MayHang(template) ==
    \E i \in 1..Len(template) :
        /\ \E o \in processSyntax(template[i][2]) : o.hang
        /\ \A j \in 1..(i - 1) : \E o \in processSyntax(template[j][2]) : ~o.hang

\* autoSendRequest, with the data its processSyntax calls produced
autoSendRequest(e, data) ==
    IF e.lockRequests THEN e ELSE sendRequest(e, data)

\* mutant: a tick that finds the lock held still counts as an attempt
intervalCallbackCountsDropped(e, id, data) ==
    LET t == e.timers[id]
    IN IF t.count > 0
       THEN IF t.requestCount < t.count
            THEN [autoSendRequest(e, data) EXCEPT
                     !.timers[id].requestCount = @ + 1]
            ELSE IF e.lockRequests THEN e ELSE stopRepeater(e)
       ELSE autoSendRequest(e, data)

\* mutant: a repeat count of 0 is treated as a count that is used up
intervalCallbackStopsUnbounded(e, id, data) ==
    IF e.lockRequests THEN e
    ELSE LET t == e.timers[id]
         IN IF t.requestCount < t.count
            THEN [autoSendRequest(e, data) EXCEPT
                     !.timers[id].requestCount = @ + 1]
            ELSE stopRepeater(e)

\* the callback startRepeater passes to setInterval, run for timer id
intervalCallback(e, id, data) ==
    IF e.lockRequests THEN e
    ELSE LET t == e.timers[id]
         IN IF t.count > 0
            THEN IF t.requestCount < t.count
                 THEN LET e1 == autoSendRequest(e, data)
                      IN IF e1.thrown THEN e1
                         ELSE [e1 EXCEPT !.timers[id].requestCount = @ + 1]
                 ELSE stopRepeater(e)
            ELSE autoSendRequest(e, data)

startRepeater(e, rInterval, count) ==
    LET e1 == [e EXCEPT !.isRepeating = TRUE,
                        !.timers = Append(@, [live |-> TRUE, count |-> count,
                                              requestCount |-> 0]),
                        !.intervalID = Len(e.timers) + 1]
    IN callListeners(e1, Event("repeater-start", <<>>, "", rInterval, count))

\* mutant: an HTTP failure stops the repeater whatever ignoreErrors is
responseCallbackAlwaysStops(e, i, statusCode) ==
    LET data == e.inflight[i].data
        e1 == IF statusCode \in HTTP_ERROR_CODES
              THEN LET f1 == [e EXCEPT !.failCount = @ + 1]
                       f2 == callListeners(f1, Event("request-fail", data, "",
                                                     statusCode, 0))
                   IN IF f2.isRepeating THEN stopRepeater(f2) ELSE f2
              ELSE LET s1 == [e EXCEPT !.successCount = @ + 1]
                   IN callListeners(s1, Event("request-success", data, "",
                                              statusCode, 0))
    IN [e1 EXCEPT !.lockRequests = FALSE, !.inflight = Remove(@, i)]

\* mutant: the events of a response carry the stored payload template
responseCallbackReportsTemplate(e, i, statusCode) ==
    LET data == requestData
        e0 == [e EXCEPT !.inflight = Remove(@, i)]
        e1 == IF statusCode \in HTTP_ERROR_CODES
              THEN LET f1 == [e0 EXCEPT !.failCount = @ + 1]
                       f2 == callListeners(f1, Event("request-fail", data, "",
                                                     statusCode, 0))
                   IN IF ~f2.thrown /\ f2.isRepeating /\ ~ignoreErrors
                      THEN stopRepeater(f2) ELSE f2
              ELSE LET s1 == [e0 EXCEPT !.successCount = @ + 1]
                   IN callListeners(s1, Event("request-success", data, "",
                                              statusCode, 0))
    IN IF e1.thrown THEN e1 ELSE [e1 EXCEPT !.lockRequests = FALSE]

\* the callback passed to http.request, for the request at index i; the
\* transport is done with the request whether or not the callback throws
responseCallback(e, i, statusCode) ==
    LET data == e.inflight[i].data
        e0 == [e EXCEPT !.inflight = Remove(@, i)]
        e1 == IF statusCode \in HTTP_ERROR_CODES
              THEN LET f1 == [e0 EXCEPT !.failCount = @ + 1]
                       f2 == callListeners(f1, Event("request-fail", data, "",
                                                     statusCode, 0))
                   IN IF ~f2.thrown /\ f2.isRepeating /\ ~ignoreErrors
                      THEN stopRepeater(f2) ELSE f2
              ELSE LET s1 == [e0 EXCEPT !.successCount = @ + 1]
                   IN callListeners(s1, Event("request-success", data, "",
                                              statusCode, 0))
    IN IF e1.thrown THEN e1 ELSE [e1 EXCEPT !.lockRequests = FALSE]

\* mutant: the handler returns after stopping the repeater, lock still held
errorHandlerKeepsLockOnStop(e, i, code) ==
    LET e1 == [e EXCEPT !.failCount = @ + 1]
        e2 == callListeners(e1, Event("request-error", <<>>, code, 0, 0))
    IN IF e2.isRepeating /\ code = "ENOTFOUND"
       THEN [stopRepeater(e2) EXCEPT !.inflight = Remove(@, i)]
       ELSE [e2 EXCEPT !.lockRequests = FALSE, !.inflight = Remove(@, i)]

\* mutant: the error is counted twice
errorHandlerCountsTwice(e, i, code) ==
    LET e1 == [e EXCEPT !.failCount = @ + 2]
        e2 == callListeners(e1, Event("request-error", <<>>, code, 0, 0))
        e3 == IF e2.isRepeating /\ code = "ENOTFOUND"
              THEN stopRepeater(e2) ELSE e2
    IN [e3 EXCEPT !.lockRequests = FALSE, !.inflight = Remove(@, i)]

\* mutant: a host resolution failure stops the repeater unless ignoreErrors
errorHandlerHonoursIgnoreErrors(e, i, code) ==
    LET e1 == [e EXCEPT !.failCount = @ + 1]
        e2 == callListeners(e1, Event("request-error", <<>>, code, 0, 0))
        e3 == IF e2.isRepeating /\ code = "ENOTFOUND" /\ ~ignoreErrors
              THEN stopRepeater(e2) ELSE e2
    IN [e3 EXCEPT !.lockRequests = FALSE, !.inflight = Remove(@, i)]

\* mutant: any transport error stops the repeater unless ignoreErrors
errorHandlerStopsUnlessIgnored(e, i, code) ==
    LET e1 == [e EXCEPT !.failCount = @ + 1, !.inflight = Remove(@, i)]
        e2 == callListeners(e1, Event("request-error", <<>>, code, 0, 0))
        e3 == IF ~e2.thrown /\ e2.isRepeating
                 /\ (code = "ENOTFOUND" \/ ~ignoreErrors)
              THEN stopRepeater(e2) ELSE e2
    IN IF e3.thrown THEN e3 ELSE [e3 EXCEPT !.lockRequests = FALSE]

\* request.on('error'), for the request at index i
errorHandler(e, i, code) ==
    LET e1 == [e EXCEPT !.failCount = @ + 1, !.inflight = Remove(@, i)]
        e2 == callListeners(e1, Event("request-error", <<>>, code, 0, 0))
        e3 == IF ~e2.thrown /\ e2.isRepeating /\ code = "ENOTFOUND"
              THEN stopRepeater(e2) ELSE e2
    IN IF e3.thrown THEN e3 ELSE [e3 EXCEPT !.lockRequests = FALSE]

\* mutant: the idle timer is armed whatever requestTimeout is
socketHandlerAlwaysArms(e, i) ==
    [e EXCEPT !.inflight[i].sock = "armed"]

\* request.on('socket'): arms the idle timer unless requestTimeout is 0
socketHandler(e, i) ==
    [e EXCEPT !.inflight[i].sock =
        IF requestTimeout # 0 THEN "armed" ELSE "unarmed"]

\* mutant: the timeout callback calls stopRepeater itself
timeoutHandlerStopsInline(e, i) ==
    LET e1 == [e EXCEPT !.inflight[i].aborted = TRUE]
    IN IF e1.isRepeating /\ ~ignoreTimeout
       THEN stopRepeater(e1) ELSE e1

\* socket.on('timeout'): aborts the request and defers stopRepeater
timeoutHandler(e, i) ==
    LET e1 == [e EXCEPT !.inflight[i].aborted = TRUE]
    IN IF e1.isRepeating /\ ~ignoreTimeout
       THEN [e1 EXCEPT !.deferred = @ + 1] ELSE e1

---------------------------------------------------------------------------
\* State machine

InitialOptions ==
    [host |-> "", method |-> "GET", port |-> DefaultPort, path |-> "/",
     headers |-> [x \in {} |-> 0]]

\* the engine as constructed
Constructed ==
    /\ lockRequests = FALSE
    /\ intervalID = 0
    /\ successCount = 0
    /\ failCount = 0
    /\ isRepeating = FALSE
    /\ ignoreErrors = FALSE
    /\ ignoreTimeout = TRUE
    /\ requestTimeout = DefaultRequestTimeout
    /\ dataEncoderType = "querystring"
    /\ followRedirects = TRUE
    /\ maxRedirects = DefaultMaxRedirects
    /\ requestData = <<>>
    /\ requestOptions = InitialOptions
    /\ timers = <<>>
    /\ inflight = <<>>
    /\ deferred = 0
    /\ emitted = <<>>
    /\ lastOp = "init"
    /\ returned = "undefined"
    /\ listeners = <<>>
    /\ invoked = <<>>
    /\ hung = FALSE
    /\ cli = CliIdle

Init ==
    /\ Constructed
    /\ input = <<>>
    /\ output = <<>>

\* a string is about to be given to processSyntax
InitSyntax ==
    /\ Constructed
    /\ input \in SyntaxInputs
    /\ output = <<>>

\* an encoder name and an object are about to be given to encode
InitEncode ==
    /\ Constructed
    /\ input \in [type : EncoderNames, data : EncodeData]
    /\ output = <<>>

\* the counters stay within the model: a request is only created while the
\* requests counted or in flight are fewer than MaxRequests
Room == successCount + failCount + Len(inflight) < MaxRequests

SendRequest ==
    \E data \in ManualData :
        /\ lockRequests \/ Room
        /\ Become(sendRequest(Cur, data), "sendRequest")
        /\ UNCHANGED config

AutoSendRequest ==
    \E data \in Materialize(requestData) :
        /\ lockRequests \/ Room
        /\ Become(autoSendRequest(Cur, data), "autoSendRequest")
        /\ UNCHANGED config

StartRepeater ==
    \E rInterval \in Intervals, count \in 0..MaxCount :
        /\ Len(timers) < MaxStarts
        /\ Become(startRepeater(Cur, rInterval, count), "startRepeater")
        /\ UNCHANGED config

StopRepeater ==
    /\ Become(stopRepeater(Cur), "stopRepeater")
    /\ UNCHANGED config

Tick ==
    \E id \in 1..Len(timers), data \in Materialize(requestData) :
        /\ timers[id].live
        /\ lockRequests \/ Room \/ (timers[id].count > 0
                                    /\ timers[id].requestCount >= timers[id].count)
        /\ Become(intervalCallback(Cur, id, data), "tick")
        /\ UNCHANGED config

Socket ==
    \E i \in 1..Len(inflight) :
        /\ inflight[i].sock = "none"
        /\ Become(socketHandler(Cur, i), "socket")
        /\ UNCHANGED config

Response ==
    \E i \in 1..Len(inflight), statusCode \in Statuses :
        /\ inflight[i].sock # "none"
        /\ ~inflight[i].aborted
        /\ Become(responseCallback(Cur, i, statusCode), "response")
        /\ UNCHANGED config

TransportError ==
    \E i \in 1..Len(inflight), code \in ErrorCodes :
        /\ inflight[i].sock # "none"
        /\ ~inflight[i].aborted
        /\ Become(errorHandler(Cur, i, code), "error")
        /\ UNCHANGED config

Timeout ==
    \E i \in 1..Len(inflight) :
        /\ inflight[i].sock = "armed"
        /\ ~inflight[i].aborted
        /\ isRepeating /\ ~ignoreTimeout => deferred < MaxDeferred
        /\ Become(timeoutHandler(Cur, i), "timeout")
        /\ UNCHANGED config

\* the 'error' that request.abort() causes
AbortError ==
    \E i \in 1..Len(inflight) :
        /\ inflight[i].aborted
        /\ Become(errorHandler(Cur, i, "ECONNRESET"), "error")
        /\ UNCHANGED config

\* setTimeout(stopRepeater, 1) fires, after the 'error' of the aborted request
DeferredStop ==
    /\ deferred > 0
    /\ \A i \in 1..Len(inflight) : ~inflight[i].aborted
    /\ Become(stopRepeater([Cur EXCEPT !.deferred = @ - 1]), "deferredStop")
    /\ UNCHANGED config

\* a call that touches neither the runtime state nor the listeners
Quiet(op) ==
    /\ ~hung
    /\ emitted' = <<>>
    /\ invoked' = <<>>
    /\ lastOp' = op
    /\ returned' = "undefined"
    /\ UNCHANGED <<lockRequests, intervalID, successCount, failCount,
                   isRepeating, requestOptions, timers, inflight, deferred,
                   listeners, hung, input, output, cli>>

SetIgnoreErrors ==
    \E value \in BOOLEAN :
        /\ ignoreErrors' = value
        /\ Quiet("set")
        /\ UNCHANGED <<ignoreTimeout, requestTimeout, dataEncoderType,
                       followRedirects, maxRedirects, requestData>>

SetIgnoreTimeout ==
    \E value \in BOOLEAN :
        /\ ignoreTimeout' = value
        /\ Quiet("set")
        /\ UNCHANGED <<ignoreErrors, requestTimeout, dataEncoderType,
                       followRedirects, maxRedirects, requestData>>

SetRequestTimeout ==
    \E timeout \in {0, DefaultRequestTimeout} :
        /\ requestTimeout' = timeout
        /\ Quiet("set")
        /\ UNCHANGED <<ignoreErrors, ignoreTimeout, dataEncoderType,
                       followRedirects, maxRedirects, requestData>>

SetRequestData ==
    \E data \in Templates :
        /\ requestData' = data
        /\ Quiet("set")
        /\ UNCHANGED <<ignoreErrors, ignoreTimeout, requestTimeout,
                       dataEncoderType, followRedirects, maxRedirects>>

\* setRequestData with a template whose macro processExtension rejects
SetRequestDataMacro ==
    \E data \in MacroTemplates :
        /\ requestData' = data
        /\ Quiet("set")
        /\ UNCHANGED <<ignoreErrors, ignoreTimeout, requestTimeout,
                       dataEncoderType, followRedirects, maxRedirects>>

\* a call that never returns: the event loop runs nothing after it
Hang(op) ==
    /\ ~hung
    /\ hung' = TRUE
    /\ emitted' = <<>>
    /\ invoked' = <<>>
    /\ lastOp' = op
    /\ returned' = "undefined"
    /\ UNCHANGED <<lockRequests, intervalID, successCount, failCount,
                   isRepeating, requestOptions, timers, inflight, deferred,
                   listeners, input, output, cli>>
    /\ UNCHANGED config

\* autoSendRequest whose processSyntax loop does not end
AutoSendRequestHangs ==
    /\ ~lockRequests
    /\ MayHang(requestData)
    /\ Hang("autoSendRequest")

\* a tick whose autoSendRequest does not return
TickHangs ==
    \E id \in 1..Len(timers) :
        /\ timers[id].live
        /\ ~lockRequests
        /\ timers[id].count > 0 => timers[id].requestCount < timers[id].count
        /\ MayHang(requestData)
        /\ Hang("tick")

\* SyntaxProcessor.processSyntax(input) returns
ProcessSyntax ==
    /\ ~hung
    /\ lastOp = "init"
    /\ \E o \in processSyntax(input) :
          /\ ~o.hang
          /\ output' = o.result
    /\ lastOp' = "processSyntax"
    /\ UNCHANGED <<lockRequests, intervalID, successCount, failCount,
                   isRepeating, requestOptions, timers, inflight, deferred,
                   emitted, returned, listeners, invoked, hung, input, cli>>
    /\ UNCHANGED config

\* SyntaxProcessor.processSyntax(input) does not return
ProcessSyntaxHangs ==
    /\ ~hung
    /\ lastOp = "init"
    /\ \E o \in processSyntax(input) : o.hang
    /\ hung' = TRUE
    /\ lastOp' = "processSyntax"
    /\ UNCHANGED <<lockRequests, intervalID, successCount, failCount,
                   isRepeating, requestOptions, timers, inflight, deferred,
                   emitted, returned, listeners, invoked, input, output, cli>>
    /\ UNCHANGED config

\* RequestDataEncoder.encode(input.type, input.data)
Encode ==
    /\ ~hung
    /\ lastOp = "init"
    /\ output' = encode(input.type, input.data)
    /\ lastOp' = "encode"
    /\ UNCHANGED <<lockRequests, intervalID, successCount, failCount,
                   isRepeating, requestOptions, timers, inflight, deferred,
                   emitted, returned, listeners, invoked, hung, input, cli>>
    /\ UNCHANGED config

\* on(message, callback)
On ==
    \E message \in ListenerMessages, throws \in BOOLEAN :
        /\ ~hung
        /\ Len(listeners) < MaxListeners
        /\ listeners' = Append(listeners, [message |-> message,
                                           throws |-> throws])
        /\ emitted' = <<>>
        /\ invoked' = <<>>
        /\ lastOp' = "on"
        /\ returned' = "undefined"
        /\ UNCHANGED <<lockRequests, intervalID, successCount, failCount,
                       isRepeating, requestOptions, timers, inflight, deferred,
                       hung, input, output, cli>>
        /\ UNCHANGED config

\* setDataEncoder(encoder) as one call
SetDataEncoderCall(encoder) ==
    LET r == setDataEncoder(dataEncoderType, encoder)
    IN /\ ~hung
       /\ dataEncoderType' = r.dataEncoderType
       /\ returned' = r.returned
       /\ emitted' = <<>>
       /\ invoked' = <<>>
       /\ lastOp' = "setDataEncoder"
       /\ UNCHANGED <<lockRequests, intervalID, successCount, failCount,
                      isRepeating, requestOptions, timers, inflight, deferred,
                      listeners, hung, input, output, cli, ignoreErrors, ignoreTimeout,
                      requestTimeout, followRedirects, maxRedirects,
                      requestData>>

SetDataEncoder == \E encoder \in EncoderNames : SetDataEncoderCall(encoder)

\* option objects a caller may pass to setRequestOptions
OptionPartials ==
    { [host |-> "localhost", port |-> 9000],
      [method |-> "POST"],
      [headers |-> [x \in {"User-Agent"} |-> "node-request-sender"]],
      [headers |-> [x \in {"Content-Type"} |-> "application/json"]],
      [headers |-> [x \in {"Content-Length"} |-> 99]],
      [path |-> "/post_tester",
       headers |-> [x \in {"User-Agent", "Content-Type"} |->
                       IF x = "User-Agent" THEN "curl" ELSE "text/plain"]] }

\* setRequestOptions(options) as one call
SetRequestOptionsCall(options) ==
    /\ ~hung
    /\ requestOptions' = setRequestOptions(requestOptions, options)
    /\ emitted' = <<>>
    /\ invoked' = <<>>
    /\ lastOp' = "setRequestOptions"
    /\ returned' = "undefined"
    /\ UNCHANGED <<lockRequests, intervalID, successCount, failCount,
                   isRepeating, timers, inflight, deferred, listeners, hung,
                   input, output, cli>>
    /\ UNCHANGED config

SetRequestOptions == \E options \in OptionPartials : SetRequestOptionsCall(options)

Next ==
    \/ SendRequest
    \/ AutoSendRequest
    \/ StartRepeater
    \/ StopRepeater
    \/ Tick
    \/ Socket
    \/ Response
    \/ TransportError
    \/ Timeout
    \/ AbortError
    \/ DeferredStop
    \/ SetIgnoreErrors
    \/ SetIgnoreTimeout
    \/ SetRequestTimeout

Spec == Init /\ [][Next]_vars

\* The transport resolves every request it was given: the 'socket' event is
\* delivered, and then a response or an 'error'.
Resolve == Response \/ TransportError \/ AbortError

\* the engine with its timeout setting left as constructed
NextFair ==
    \/ SendRequest
    \/ StartRepeater
    \/ StopRepeater
    \/ Tick
    \/ Socket
    \/ Response
    \/ TransportError
    \/ Timeout
    \/ AbortError
    \/ DeferredStop
    \/ SetIgnoreErrors
    \/ SetIgnoreTimeout

SpecFair == Init /\ [][NextFair]_vars /\ WF_vars(Socket) /\ WF_vars(Resolve)

\* startRepeater called once more than Spec allows: a restart, or a second
\* start while the first timer is live
StartRepeaterAgain ==
    \E rInterval \in Intervals, count \in 0..MaxCount :
        /\ Len(timers) = MaxStarts
        /\ Become(startRepeater(Cur, rInterval, count), "startRepeater")
        /\ UNCHANGED config

NextAgain == Next \/ StartRepeaterAgain

\* startRepeater with a repeat count on an idle engine whose counters are 0
StartRepeaterIdle ==
    \E rInterval \in Intervals, count \in 1..MaxCount :
        /\ Len(timers) < MaxStarts
        /\ ~isRepeating /\ ~lockRequests /\ inflight = <<>>
        /\ successCount = 0 /\ failCount = 0
        /\ Become(startRepeater(Cur, rInterval, count), "startRepeater")
        /\ UNCHANGED config

\* the engine driven by its repeater alone: no manual send, no manual stop
NextRepeater ==
    \/ StartRepeaterIdle
    \/ Tick
    \/ Socket
    \/ Response
    \/ TransportError
    \/ Timeout
    \/ AbortError
    \/ DeferredStop
    \/ SetIgnoreErrors
    \/ SetIgnoreTimeout
    \/ SetRequestTimeout

\* timers fire and the transport resolves every request
SpecRepeater ==
    /\ Init /\ [][NextRepeater]_vars
    /\ WF_vars(Tick) /\ WF_vars(DeferredStop)
    /\ WF_vars(Socket) /\ WF_vars(Resolve)

\* a repeater run that the caller may stop; the transport resolves every
\* request and the timer of setTimeout(stopRepeater, 1) fires
NextDeferred == NextRepeater \/ StopRepeater

SpecDeferred ==
    /\ Init /\ [][NextDeferred]_vars
    /\ WF_vars(Socket) /\ WF_vars(Resolve) /\ WF_vars(DeferredStop)

SpecAgain == Init /\ [][NextAgain]_vars

\* sendRequest called by hand before the repeater was ever started
SendRequestBefore ==
    /\ Len(timers) = 0
    /\ SendRequest

\* startRepeater with a repeat count once the engine is idle, whatever the
\* counters are
StartRepeaterAfter ==
    \E rInterval \in Intervals, count \in 1..MaxCount :
        /\ Len(timers) < MaxStarts
        /\ ~isRepeating /\ ~lockRequests /\ inflight = <<>>
        /\ Become(startRepeater(Cur, rInterval, count), "startRepeater")
        /\ UNCHANGED config

\* manual requests that are over before the repeater starts, then a counted
\* run driven by its ticks alone
NextManualFirst ==
    \/ SendRequestBefore
    \/ StartRepeaterAfter
    \/ Tick
    \/ Socket
    \/ Response
    \/ TransportError
    \/ SetIgnoreErrors

SpecManualFirst == Init /\ [][NextManualFirst]_vars

---------------------------------------------------------------------------
\* Commands of the command-line layer

\* the argument lists vorpal hands to a command with a variadic argument
CliLists(tokens) == UNION {[1..n -> tokens] : n \in 1..MaxCliArgs}

\* words typed for header names and values, and for field names and values
HeaderTokens == {"User-Agent", "Accept"}
DataTokens == {<<"k">>, Text}

\* headers[key] = value
SetHeader(headers, key, value) ==
    [x \in DOMAIN headers \cup {key} |-> IF x = key THEN value ELSE headers[x]]

\* _.each(_.chunk(args.headers, 2), ...) over a list of even length
RECURSIVE SetHeaders(_, _)
SetHeaders(headers, args) ==
    IF Len(args) < 2 THEN headers
    ELSE SetHeaders(SetHeader(headers, args[1], args[2]),
                    SubSeq(args, 3, Len(args)))

\* requestData[key] = value
SetField(data, key, value) ==
    IF HasKey(data, key)
    THEN [i \in 1..Len(data) |->
            IF data[i][1] = key THEN <<key, value>> ELSE data[i]]
    ELSE Append(data, <<key, value>>)

RECURSIVE SetFields(_, _)
SetFields(data, args) ==
    IF Len(args) < 2 THEN data
    ELSE SetFields(SetField(data, args[1], args[2]),
                   SubSeq(args, 3, Len(args)))

\* editHeaders: the options object of the engine after the command, and
\* whether an error was logged
editHeaders(options, args) ==
    IF Len(args) < 2 THEN [options |-> options, reported |-> TRUE]
    ELSE IF Len(args) % 2 # 0 THEN [options |-> options, reported |-> TRUE]
    ELSE LET edited ==
                 [options EXCEPT !["headers"] = SetHeaders(@, args)]
         IN [options |-> setRequestOptions(edited, edited),
             reported |-> FALSE]

\* removeHeaders works on the object getRequestOptions returned, which is the
\* engine's own: each delete acts at once, and a name that is not there only
\* logs an error and keeps setRequestOptions from being called
RECURSIVE removeHeaders(_, _)
removeHeaders(options, args) ==
    IF args = <<>> THEN [options |-> options, reported |-> FALSE]
    ELSE IF Head(args) \in DOMAIN options["headers"]
         THEN removeHeaders(
                  [options EXCEPT !["headers"] =
                      [x \in DOMAIN @ \ {Head(args)} |-> @[x]]],
                  Tail(args))
         ELSE [removeHeaders(options, Tail(args)) EXCEPT !.reported = TRUE]

editData(data, args) ==
    IF Len(args) < 2 THEN [data |-> data, reported |-> TRUE]
    ELSE IF Len(args) % 2 # 0 THEN [data |-> data, reported |-> TRUE]
    ELSE [data |-> SetFields(data, args), reported |-> FALSE]

DeleteField(data, key) == SelectSeq(data, LAMBDA pair : pair[1] # key)

\* removeData works on the object getRequestData returned, the engine's own
RECURSIVE removeData(_, _)
removeData(data, args) ==
    IF args = <<>> THEN [data |-> data, reported |-> FALSE]
    ELSE IF HasKey(data, Head(args))
         THEN removeData(DeleteField(data, Head(args)), Tail(args))
         ELSE [removeData(data, Tail(args)) EXCEPT !.reported = TRUE]

\* a command that returned after changing at most the stored headers and
\* the stored payload template
CliCommand(op, options, data, reported) ==
    /\ ~hung
    /\ requestOptions' = options
    /\ requestData' = data
    /\ cli' = [cli EXCEPT !.reported = reported, !.threw = FALSE]
    /\ lastOp' = op
    /\ emitted' = <<>>
    /\ invoked' = <<>>
    /\ returned' = "undefined"
    /\ UNCHANGED <<lockRequests, intervalID, successCount, failCount,
                   isRepeating, timers, inflight, deferred, listeners, hung,
                   input, output, ignoreErrors, ignoreTimeout, requestTimeout,
                   dataEncoderType, followRedirects, maxRedirects>>

EditHeadersCall(args) ==
    LET r == editHeaders(requestOptions, args)
    IN CliCommand("editheaders", r.options, requestData, r.reported)

RemoveHeadersCall(args) ==
    LET r == removeHeaders(requestOptions, args)
    IN CliCommand("removeheaders", r.options, requestData, r.reported)

EditDataCall(args) ==
    LET r == editData(requestData, args)
    IN CliCommand("editdata", requestOptions, r.data, r.reported)

RemoveDataCall(args) ==
    LET r == removeData(requestData, args)
    IN CliCommand("removedata", requestOptions, r.data, r.reported)

EditHeaders == \E args \in CliLists(HeaderTokens) : EditHeadersCall(args)

RemoveHeaders == \E args \in CliLists(HeaderTokens) : RemoveHeadersCall(args)

EditData == \E args \in CliLists(DataTokens) : EditDataCall(args)

RemoveData == \E args \in CliLists(DataTokens) : RemoveDataCall(args)

\* a sendrequest command that ended without calling the engine
CliReturn(c) ==
    /\ ~hung
    /\ cli' = c
    /\ lastOp' = "sendrequest"
    /\ emitted' = <<>>
    /\ invoked' = <<>>
    /\ returned' = "undefined"
    /\ UNCHANGED <<lockRequests, intervalID, successCount, failCount,
                   isRepeating, requestOptions, timers, inflight, deferred,
                   listeners, hung, input, output>>
    /\ UNCHANGED config

\* the sendrequest command; args is empty when no field was typed.  The
\* message for a list of odd length reads the undeclared name data, so the
\* command ends there with a ReferenceError
CliSendRequestCall(args) ==
    LET c == [awaitRequestFinish(cli) EXCEPT !.commands = @ + 1,
                                             !.reported = FALSE,
                                             !.threw = FALSE]
    IN /\ cli.commands < MaxCommands
       /\ IF args = <<>>
          THEN \E data \in Materialize(requestData) :
                   /\ lockRequests \/ Room
                   /\ BecomeWith(autoSendRequest(Cur, data), "sendrequest", c)
                   /\ UNCHANGED config
          ELSE IF Len(args) < 2
          THEN CliReturn([c EXCEPT !.reported = TRUE, !.completed = @ + 1])
          ELSE IF Len(args) % 2 # 0
          THEN CliReturn([c EXCEPT !.threw = TRUE])
          ELSE /\ lockRequests \/ Room
               /\ BecomeWith(sendRequest(Cur, SetFields(<<>>, args)),
                             "sendrequest", c)
               /\ UNCHANGED config

CliSendRequest ==
    \E args \in CliLists(DataTokens) \cup {<<>>} : CliSendRequestCall(args)

\* the editing commands and sendrequest at the prompt
NextCliEdit ==
    \/ EditHeaders
    \/ RemoveHeaders
    \/ EditData
    \/ RemoveData
    \/ CliSendRequest
    \/ Socket
    \/ Response

SpecCliEdit == Init /\ [][NextCliEdit]_vars

\* the startrepeater command: a one-shot repeater-stop listener, then
\* startRepeater, then a one-shot SIGINT listener that calls stopRepeater
CliStartRepeater ==
    \E rInterval \in Intervals, count \in 0..MaxCount :
        /\ cli.commands < MaxCommands
        /\ Len(timers) < MaxStarts
        /\ BecomeWith(startRepeater(Cur, rInterval, count), "startrepeater",
                      [cli EXCEPT !.stopOnce = @ + 1, !.sigint = TRUE,
                                  !.commands = @ + 1, !.reported = FALSE,
                                  !.threw = FALSE])
        /\ UNCHANGED config

\* Ctrl+C while the SIGINT listener of startrepeater is registered
Sigint ==
    /\ cli.sigint
    /\ BecomeWith(stopRepeater(Cur), "sigint", [cli EXCEPT !.sigint = FALSE])
    /\ UNCHANGED config

\* the sender is configured at the prompt, before the command is entered
ConfigureBefore ==
    /\ cli.commands = 0
    /\ SetIgnoreErrors \/ SetIgnoreTimeout

\* one startrepeater command and the run it starts
NextCli ==
    \/ ConfigureBefore
    \/ CliStartRepeater
    \/ Sigint
    \/ Tick
    \/ Socket
    \/ Response
    \/ TransportError
    \/ Timeout
    \/ AbortError
    \/ DeferredStop

SpecCli == Init /\ [][NextCli]_vars

\* the configuration calls, and manual requests that use the configuration
NextConfig ==
    \/ SetDataEncoder
    \/ SetRequestOptions
    \/ SetRequestData
    \/ SendRequest
    \/ Socket
    \/ Response

SpecConfig == Init /\ [][NextConfig]_vars

\* manual requests of a caller that registers listeners
NextListeners ==
    \/ On
    \/ SendRequest
    \/ Socket
    \/ Response

SpecListeners == Init /\ [][NextListeners]_vars

\* automatic requests from payload templates
NextTemplates ==
    \/ SetRequestData
    \/ SetRequestDataMacro
    \/ AutoSendRequest
    \/ AutoSendRequestHangs
    \/ StartRepeater
    \/ Tick
    \/ TickHangs
    \/ Socket
    \/ Response

SpecTemplates == Init /\ [][NextTemplates]_vars

\* one call of processSyntax
NextSyntax ==
    \/ ProcessSyntax
    \/ ProcessSyntaxHangs

SpecSyntax == InitSyntax /\ [][NextSyntax]_vars

\* one call of encode
NextEncode == Encode

SpecEncode == InitEncode /\ [][NextEncode]_vars

---------------------------------------------------------------------------
\* Properties

engine == <<lockRequests, intervalID, successCount, failCount, isRepeating,
            requestOptions, timers, inflight, deferred>>

StopEvent(s, f) == Event("repeater-stop", <<>>, "", s, f)

\* C1: at most one request is in flight in every reachable state
AtMostOneInFlight == Len(inflight) <= 1

\* a repeater tick found a request in flight and dispatched nothing
TickDroppedWhileInFlight ==
    /\ lastOp = "tick"
    /\ emitted = <<>>
    /\ Len(inflight) = 1
    /\ lockRequests

\* C2: sendRequest or autoSendRequest called while the lock is held emits no
\* event, dispatches no request and changes neither the counters, the lock,
\* the repeating flag nor the configuration
SendWhileLockedIsNoOp ==
    [][(lockRequests /\ lastOp' \in {"sendRequest", "autoSendRequest"})
         => (emitted' = <<>> /\ UNCHANGED <<engine, config>>)]_vars

SendDroppedWhileLocked ==
    /\ lastOp \in {"sendRequest", "autoSendRequest"}
    /\ emitted = <<>>
    /\ lockRequests
    /\ Len(inflight) = 1

ErrorSet == {400, 401, 403, 404, 405, 500, 502, 503, 504}

\* C3 as claimed: a response step increments exactly one counter by 1,
\* failCount with request-fail iff the status is in the error set, else
\* successCount with request-success
ResponseIncrementsOneCounter ==
    [][lastOp' = "response" =>
          /\ Len(emitted') >= 1
          /\ IF emitted'[1].n1 \in ErrorSet
             THEN /\ emitted'[1].name = "request-fail"
                  /\ failCount' = failCount + 1
                  /\ successCount' = successCount
             ELSE /\ emitted'[1].name = "request-success"
                  /\ successCount' = successCount + 1
                  /\ failCount' = failCount]_vars

\* C3 amended: a response step emits request-fail iff the status is in the
\* error set and request-success otherwise; unless the step also stops the
\* repeater, exactly that counter grows by 1 and the other is unchanged; when
\* the failure stops the repeater, repeater-stop reports the old successCount
\* and failCount + 1 and both counters are 0 after the step
ResponseCountsOnce ==
    [][lastOp' = "response" =>
          /\ Len(emitted') \in {1, 2}
          /\ IF emitted'[1].n1 \in ErrorSet
             THEN /\ emitted'[1].name = "request-fail"
                  /\ IF Len(emitted') = 1
                     THEN /\ failCount' = failCount + 1
                          /\ successCount' = successCount
                     ELSE /\ emitted'[2] = StopEvent(successCount, failCount + 1)
                          /\ isRepeating /\ ~ignoreErrors
                          /\ failCount' = 0
                          /\ successCount' = 0
             ELSE /\ emitted' = <<Event("request-success", emitted'[1].data, "",
                                        emitted'[1].n1, 0)>>
                  /\ successCount' = successCount + 1
                  /\ failCount' = failCount]_vars

\* a 301 was counted as the second success
RedirectCountedAsSuccess ==
    /\ lastOp = "response"
    /\ emitted[1].name = "request-success"
    /\ emitted[1].n1 = 301
    /\ successCount = 2

\* C4 as claimed: an error step increments failCount by 1, leaves
\* successCount unchanged, emits one request-error and releases the lock
ErrorIncrementsFailCount ==
    [][lastOp' = "error" =>
          /\ Len(emitted') = 1
          /\ emitted'[1].name = "request-error"
          /\ failCount' = failCount + 1
          /\ successCount' = successCount
          /\ ~lockRequests']_vars

\* C4 amended: an error step emits exactly one request-error carrying the
\* error code and releases the lock; unless the step also stops the repeater,
\* failCount grows by 1 and successCount is unchanged; when the error stops
\* the repeater (ENOTFOUND while repeating), repeater-stop reports the old
\* successCount and failCount + 1 and both counters are 0 after the step
ErrorCountsOnce ==
    [][lastOp' = "error" =>
          /\ Len(emitted') \in {1, 2}
          /\ emitted'[1].name = "request-error"
          /\ emitted'[1].code \in ErrorCodes \cup {"ECONNRESET"}
          /\ ~lockRequests'
          /\ Len(inflight') = Len(inflight) - 1
          /\ IF Len(emitted') = 1
             THEN /\ failCount' = failCount + 1
                  /\ successCount' = successCount
             ELSE /\ emitted'[2] = StopEvent(successCount, failCount + 1)
                  /\ isRepeating /\ emitted'[1].code = "ENOTFOUND"
                  /\ failCount' = 0
                  /\ successCount' = 0]_vars

\* the error of an aborted request was counted after an earlier success
AbortCountedAsFailure ==
    /\ lastOp = "error"
    /\ emitted[1].code = "ECONNRESET"
    /\ failCount = 1
    /\ successCount = 1
    /\ ~lockRequests

\* C5: whenever the lock is held and the transport delivers the response or
\* the error of the request, the lock is eventually released
LockEventuallyReleased == lockRequests ~> ~lockRequests

\* the lock was released by a response that also stopped the repeater
LockReleasedAfterPolicyStop ==
    /\ lastOp = "response"
    /\ Len(emitted) = 2
    /\ ~lockRequests
    /\ inflight = <<>>

\* C6: stopRepeater called while the engine is repeating cancels the
\* scheduled ticks, clears the repeating flag, emits exactly one
\* repeater-stop carrying the counters as they were and leaves both at 0
StopCancelsTicksAndReports ==
    [][(lastOp' = "stopRepeater" /\ isRepeating) =>
          /\ \A id \in DOMAIN timers' : ~timers'[id].live
          /\ ~isRepeating'
          /\ emitted' = <<StopEvent(successCount, failCount)>>
          /\ successCount' = 0
          /\ failCount' = 0]_vars

\* C7: stopRepeater called while the engine is not repeating emits nothing
\* and changes no state
StopWhenNotRepeatingIsNoOp ==
    [][(lastOp' = "stopRepeater" /\ ~isRepeating)
         => (emitted' = <<>> /\ UNCHANGED <<engine, config>>)]_vars

\* the step is a tick that stopped the repeater because its count was reached
NaturalStop ==
    /\ lastOp' = "tick"
    /\ emitted' # <<>>
    /\ emitted'[1].name = "repeater-stop"

Dispatched == Len(inflight') = Len(inflight) + 1

\* C9: requestCount of a timer with count n > 0 never exceeds n, it changes
\* only in a tick that dispatched a request, by 1, every dispatching tick
\* advances the requestCount of a counted timer, and a tick that finds the
\* lock held dispatches nothing and changes nothing
TicksCountOnlyDispatches ==
    [][/\ \A id \in DOMAIN timers :
            timers'[id].live =>
              /\ timers'[id].requestCount <= timers'[id].count
              /\ timers'[id].requestCount # timers[id].requestCount =>
                   /\ lastOp' = "tick"
                   /\ ~lockRequests
                   /\ Dispatched
                   /\ timers'[id].requestCount = timers[id].requestCount + 1
       /\ (lastOp' = "tick" /\ lockRequests) =>
            (emitted' = <<>> /\ UNCHANGED <<engine, config>>)
       /\ (lastOp' = "tick" /\ Dispatched) =>
            \E id \in DOMAIN timers :
               /\ timers[id].live
               /\ \/ timers[id].count = 0
                  \/ timers'[id].requestCount = timers[id].requestCount + 1
      ]_vars

\* a tick of a run of two found the first request in flight
TickSkippedNotCounted ==
    /\ lastOp = "tick"
    /\ lockRequests
    /\ emitted = <<>>
    /\ \E id \in DOMAIN timers :
          /\ timers[id].live
          /\ timers[id].count = 2
          /\ timers[id].requestCount = 1

\* C10: a response with an error status received while repeating stops the
\* repeater in the same step iff ignoreErrors is false; repeater-stop then
\* follows request-fail and its failCount includes the failure
HttpFailureStopsUnlessIgnored ==
    [][(lastOp' = "response" /\ isRepeating
        /\ emitted'[1].name = "request-fail") =>
          IF ignoreErrors
          THEN /\ Len(emitted') = 1
               /\ isRepeating'
               /\ failCount' = failCount + 1
               /\ UNCHANGED <<timers, intervalID>>
          ELSE /\ Len(emitted') = 2
               /\ emitted'[2] = StopEvent(successCount, failCount + 1)
               /\ ~isRepeating'
               /\ ~timers'[intervalID].live]_vars

\* a second failure stopped the repeater after ignoreErrors was switched off
FailureStoppedRepeater ==
    /\ lastOp = "response"
    /\ Len(emitted) = 2
    /\ emitted[1].name = "request-fail"
    /\ emitted[2] = StopEvent(0, 2)
    /\ ~isRepeating

\* the events that end a request
Terminal == {"request-success", "request-fail", "request-error"}

HasStopEvent(events) ==
    \E k \in 1..Len(events) : events[k].name = "repeater-stop"

\* C11: an idle timeout aborts the request and emits nothing; it leaves the
\* repeater running in that step and schedules one deferred stopRepeater iff
\* the engine is repeating and ignoreTimeout is false; a scheduled stop
\* eventually runs and emits repeater-stop
TimeoutDefersStop ==
    /\ [][lastOp' = "timeout" =>
            /\ emitted' = <<>>
            /\ UNCHANGED <<isRepeating, timers, intervalID, lockRequests,
                           successCount, failCount>>
            /\ Len(inflight') = Len(inflight)
            /\ \E i \in 1..Len(inflight) :
                  ~inflight[i].aborted /\ inflight'[i].aborted
            /\ deferred' = IF isRepeating /\ ~ignoreTimeout
                           THEN deferred + 1 ELSE deferred]_vars
    /\ (deferred > 0) ~> (/\ lastOp = "deferredStop"
                          /\ HasStopEvent(emitted)
                          /\ ~isRepeating)

\* the deferred stop ran after the aborted request was counted as a failure
DeferredStopAfterTimeout ==
    /\ lastOp = "deferredStop"
    /\ emitted = <<StopEvent(0, 1)>>
    /\ ~isRepeating
    /\ deferred = 0

\* C12: an 'error' with code ENOTFOUND received while repeating stops the
\* repeater in the same step whatever ignoreErrors and ignoreTimeout are, and
\* the repeater-stop event carries the failure just counted
HostNotFoundStops ==
    [][(lastOp' = "error" /\ isRepeating
        /\ emitted'[1].code = "ENOTFOUND") =>
          /\ Len(emitted') = 2
          /\ emitted'[1].name = "request-error"
          /\ emitted'[2] = StopEvent(successCount, failCount + 1)
          /\ ~isRepeating'
          /\ ~timers'[intervalID].live]_vars

\* ENOTFOUND stopped the repeater although both ignore flags were set
HostNotFoundStoppedIgnoring ==
    /\ lastOp = "error"
    /\ Len(emitted) = 2
    /\ emitted[1].code = "ENOTFOUND"
    /\ emitted[2] = StopEvent(1, 1)
    /\ ignoreErrors /\ ignoreTimeout
    /\ ~isRepeating

\* C13: a step that runs stopRepeater's body (it emits repeater-stop) leaves
\* both counters 0; in every other step each counter is unchanged or one more
CountersResetOnlyByStop ==
    [][IF HasStopEvent(emitted')
       THEN successCount' = 0 /\ failCount' = 0
       ELSE /\ successCount' \in {successCount, successCount + 1}
            /\ failCount' \in {failCount, failCount + 1}]_vars

\* stopRepeater reset a success and a failure together
BothCountersReset ==
    /\ lastOp = "stopRepeater"
    /\ emitted = <<StopEvent(1, 1)>>
    /\ successCount = 0 /\ failCount = 0

\* C14: stopRepeater leaves the lock and the request in flight as they are,
\* and a request in flight when it ran still ends with its terminal event
StopLeavesRequestInFlight ==
    /\ [][lastOp' = "stopRepeater" => UNCHANGED <<lockRequests, inflight>>]_vars
    /\ (lastOp = "stopRepeater" /\ HasStopEvent(emitted) /\ lockRequests)
          ~> (/\ lastOp \in {"response", "error"}
              /\ emitted[1].name \in Terminal)

\* stopRepeater has just run with a request in flight
StoppedWithRequestInFlight ==
    /\ lastOp = "stopRepeater"
    /\ HasStopEvent(emitted)
    /\ lockRequests
    /\ Len(inflight) = 1
    /\ ~isRepeating

\* every live timer was started with repeatCount 0
AllUnbounded == \A id \in DOMAIN timers : timers[id].live => timers[id].count = 0

\* C15: with repeatCount 0 a tick never stops the repeater, and it dispatches
\* whenever the lock is free; the repeater then stops only by stopRepeater, a
\* failure status without ignoreErrors, a deferred timeout stop or ENOTFOUND
UnboundedRunStopsOnlyByPolicy ==
    [][(isRepeating /\ AllUnbounded) =>
          /\ lastOp' = "tick" =>
                /\ isRepeating'
                /\ UNCHANGED <<timers, successCount, failCount>>
                /\ IF lockRequests
                   THEN emitted' = <<>> /\ UNCHANGED inflight
                   ELSE /\ Len(emitted') = 1
                        /\ emitted'[1].name = "request-start"
                        /\ Len(inflight') = Len(inflight) + 1
                        /\ lockRequests'
          /\ ~isRepeating' =>
                \/ lastOp' \in {"stopRepeater", "deferredStop"}
                \/ /\ lastOp' = "response"
                   /\ emitted'[1].name = "request-fail"
                   /\ ~ignoreErrors
                \/ /\ lastOp' = "error"
                   /\ emitted'[1].code = "ENOTFOUND"]_vars

\* the second tick of an unbounded run dispatched its request
UnboundedRunSecondDispatch ==
    /\ lastOp = "tick"
    /\ isRepeating
    /\ AllUnbounded
    /\ successCount + failCount = 1
    /\ Len(emitted) = 1
    /\ emitted[1].name = "request-start"

\* C16: the socket handler arms the idle timer iff requestTimeout is not 0;
\* only a request with an armed timer is ever aborted; the lock is held while
\* a request is unresolved and only a response or an 'error' releases it; an
\* aborted request ends by 'error' ECONNRESET, counted once, lock released
TimerArmedIffTimeoutSet ==
    /\ [][lastOp' = "socket" =>
            \E i \in 1..Len(inflight) :
               /\ inflight[i].sock = "none"
               /\ inflight'[i].sock =
                     IF requestTimeout = 0 THEN "unarmed" ELSE "armed"]_vars
    /\ [](\A i \in 1..Len(inflight) :
             /\ inflight[i].aborted => inflight[i].sock = "armed"
             /\ lockRequests)
    /\ [][lockRequests /\ ~lockRequests' =>
             lastOp' \in {"response", "error"}]_vars
    /\ [][\A i \in 1..Len(inflight) :
             (inflight[i].aborted /\ Len(inflight') < Len(inflight)) =>
                /\ lastOp' = "error"
                /\ emitted'[1] = Event("request-error", <<>>, "ECONNRESET", 0, 0)
                /\ ~lockRequests'
                /\ failCount' = failCount + 1]_vars

\* a request got its socket while requestTimeout was 0: no timer, lock held
RequestWithoutTimer ==
    /\ lastOp = "socket"
    /\ requestTimeout = 0
    /\ Len(inflight) = 1
    /\ inflight[1].sock = "unarmed"
    /\ lockRequests

\* C17: setDataEncoder(name) returns true and makes name the active encoder
\* iff name is a registered format; otherwise it returns false and the active
\* encoder stays
EncoderSetIffRegistered ==
    [][\A name \in EncoderNames :
          SetDataEncoderCall(name) =>
             /\ (name \in {"querystring", "json", "text"})
                   <=> (encoderExists(name) /\ name \in getValidEncoders)
             /\ IF name \in {"querystring", "json", "text"}
                THEN returned' = "true" /\ dataEncoderType' = name
                ELSE returned' = "false" /\ UNCHANGED dataEncoderType]_vars

\* an unregistered name was refused while json was active
UnknownEncoderRefused ==
    /\ lastOp = "setDataEncoder"
    /\ returned = "false"
    /\ dataEncoderType = "json"

\* C18: setRequestOptions(partial) overwrites the top-level fields partial
\* names, leaves the other top-level fields, and keeps every header that
\* partial.headers does not name
HeadersMergedEntryByEntry ==
    [][\A partial \in OptionPartials :
          SetRequestOptionsCall(partial) =>
             /\ \A k \in DOMAIN requestOptions \ {"headers"} :
                   requestOptions'[k] =
                      IF k \in DOMAIN partial THEN partial[k]
                      ELSE requestOptions[k]
             /\ \A h \in DOMAIN requestOptions["headers"] :
                   ("headers" \notin DOMAIN partial
                    \/ h \notin DOMAIN partial["headers"]) =>
                      /\ h \in DOMAIN requestOptions'["headers"]
                      /\ requestOptions'["headers"][h] =
                            requestOptions["headers"][h]]_vars

RECURSIVE AllMatching(_)
\* the listeners of every event of the sequence, in emission order
AllMatching(events) ==
    IF events = <<>> THEN <<>>
    ELSE Matching(Head(events).name) \o AllMatching(Tail(events))

\* C19: a step calls every listener registered for each event it emits, in
\* registration order, and still completes: a response releases the lock and
\* an accepted sendRequest creates its request
ListenersAllRunAndStepCompletes ==
    [][/\ invoked' = AllMatching(emitted')
       /\ lastOp' = "response" => ~lockRequests'
       /\ (lastOp' = "sendRequest" /\ ~lockRequests) =>
             Len(inflight') = Len(inflight) + 1]_vars

\* C20: every call of autoSendRequest and every tick returns
ExpansionAlwaysReturns == ~hung

---------------------------------------------------------------------------
\* processSyntax as a function of its argument (SpecSyntax)

\* processSyntax was called with input and has returned output
Expanded == lastOp = "processSyntax" /\ ~hung

\* C21: a call of an unknown name or of a wrong number of arguments is left
\* in the returned string as written, and a well-formed call of a known macro
\* before or after it is expanded: processSyntax returns, and returns the
\* rejected call with the $mail() beside it replaced by a mail domain
UnknownMacroKeptOthersExpanded ==
    \A bad \in BadCalls :
        /\ input \in {bad, MailCall \o bad, bad \o MailCall} => ~hung
        /\ (Expanded /\ input = bad) => output = bad
        /\ (Expanded /\ input = MailCall \o bad) =>
              \E d \in VALID_MAILDOMAINS : output = d \o bad
        /\ (Expanded /\ input = bad \o MailCall) =>
              \E d \in VALID_MAILDOMAINS : output = bad \o d

\* C22: a call whose argument list is no comma-separated list of quoted
\* strings and unsigned integers is returned as written
MalformedCallLeftUnexpanded ==
    (Expanded /\ input \in MalformedCalls) => output = input

\* the characters of a string
Chars(str) == {str[k] : k \in 1..Len(str)}

TextPicksSuppliedArgument ==
    \A items \in ItemLists :
        (Expanded /\ input = TextCall(items)) =>
            \E i \in 1..Len(items) : output = items[i]

\* C29: the string processSyntax returns has no match of REGEX_FUNCTION left,
\* macro calls that a substitution produced included
NoMacroLeftOnReturn ==
    Expanded => FunctionExec(output) = <<>>

\* $text('$mail')() was expanded twice: the substituted $mail completed a
\* call with the () that followed, and the output is a mail domain
SubstitutedMacroExpanded ==
    /\ Expanded
    /\ input = <<"$", "t", "e", "x", "t", "(", "'", "$", "m", "a", "i", "l", "'", ")", "(", ")">>
    /\ output \in VALID_MAILDOMAINS

\* C25: encode returns the empty string for a type that is not registered,
\* and for 'text' the value of the object's text key, whatever other keys the
\* object has, or the empty string when it has no text key
EncodeUnregisteredEmptyTextVerbatim ==
    lastOp = "encode" =>
        /\ input.type \notin getValidEncoders => output = <<>>
        /\ input.type = "text" =>
              /\ \A i \in 1..Len(input.data) :
                    input.data[i][1] = Text => output = input.data[i][2]
              /\ (\A i \in 1..Len(input.data) : input.data[i][1] # Text) =>
                    output = <<>>

\* the text encoder has returned the text of an object that has another key
\* before its text key
TextReturnedBesideOtherKey ==
    /\ lastOp = "encode"
    /\ input.type = "text"
    /\ Len(input.data) = 2
    /\ input.data[2][1] = Text
    /\ output = <<"h", "i">>

\* C26: a tick that dispatches a request expands the template stored at that
\* moment: the data of the request and of its request-start event has the
\* template's keys, each value an expansion of the template's value, whatever
\* template earlier requests were built from
TickExpandsStoredTemplate ==
    [][(lastOp' = "tick" /\ Len(inflight') = Len(inflight) + 1) =>
          LET data == inflight'[Len(inflight')].data
          IN /\ Len(data) = Len(requestData)
             /\ \A i \in 1..Len(data) :
                   /\ data[i][1] = requestData[i][1]
                   /\ \E o \in processSyntax(requestData[i][2]) :
                         ~o.hang /\ data[i][2] = o.result
             /\ emitted' = <<Event("request-start", data, "", 0, 0)>>]_vars

\* after an earlier request was answered, a tick has dispatched a request
\* whose k field is an expansion of $text('x',7)
TickSentExpandedField ==
    /\ lastOp = "tick"
    /\ successCount + failCount >= 1
    /\ Len(inflight) = 1
    /\ inflight[1].data = << <<<<"k">>, <<"7">>>>, <<Text, <<"o", "k">>>> >>

\* C27: sendRequest, autoSendRequest, startRepeater and stopRepeater leave
\* the stored connection options, headers included, as they were
RequestCallsKeepOptions ==
    [][lastOp' \in {"sendRequest", "autoSendRequest", "startRepeater",
                    "stopRepeater"} =>
          requestOptions' = requestOptions]_vars

\* C28: the Content-Length header of every dispatched request is the byte
\* length of the body written for it (the encoding of its fields under the
\* encoder in force, nothing when it has no field), whatever Content-Length
\* an earlier request or a setRequestOptions call left in the stored headers
ContentLengthIsBodyLength ==
    [][Len(inflight') = Len(inflight) + 1 =>
          LET r == inflight'[Len(inflight')]
          IN /\ r.body = IF Len(r.data) > 0
                         THEN encode(dataEncoderType, r.data) ELSE <<>>
             /\ r.contentLength = ByteLength(r.body)
             /\ requestOptions'["headers"]["Content-Length"] =
                   ByteLength(r.body)]_vars

\* after an earlier request left its Content-Length in the stored headers, a
\* request with the text body of two characters and three bytes is in flight
ThreeByteBodyDispatched ==
    /\ lastOp = "sendRequest"
    /\ successCount + failCount >= 1
    /\ Len(inflight) = 1
    /\ inflight[1].body = <<"h", "é">>
    /\ inflight[1].contentLength = 3

\* C30: when the stop deferred by a timeout stops the repeater, the
\* request-error of the aborted request was emitted before, and the failCount
\* the repeater-stop event carries includes the request that timed out
TimeoutStopCountsTimedOutRequest ==
    [][(lastOp' = "deferredStop" /\ isRepeating) =>
          /\ \A i \in 1..Len(inflight) : ~inflight[i].aborted
          /\ emitted' = <<StopEvent(successCount, failCount)>>
          /\ failCount >= 1]_vars

\* C31: an 'error' whose code is not ENOTFOUND (connection refused, or the
\* reset that follows an abort) received while repeating does not stop the
\* repeater, whatever ignoreErrors is: the step emits request-error only, the
\* engine is still repeating, its tick timer is still live and the lock is
\* released, so that the next tick dispatches
OtherErrorKeepsRepeating ==
    [][(lastOp' = "error" /\ isRepeating
        /\ emitted'[1].code # "ENOTFOUND") =>
          /\ Len(emitted') = 1
          /\ emitted'[1].name = "request-error"
          /\ isRepeating'
          /\ timers' = timers
          /\ timers'[intervalID].live
          /\ ~lockRequests'
          /\ deferred' = deferred]_vars

\* a refused connection was reported while ignoreErrors was off, and the
\* repeater goes on
RefusedConnectionKeptRepeating ==
    /\ lastOp = "error"
    /\ emitted = <<Event("request-error", <<>>, "ECONNREFUSED", 0, 0)>>
    /\ ~ignoreErrors
    /\ isRepeating
    /\ timers[intervalID].live
    /\ ~lockRequests

\* the events of the given names among events, in order
Named(events, names) == SelectSeq(events, LAMBDA ev : ev.name \in names)

\* C33: the events of requests are well bracketed.  A step emits at most one
\* request-start or terminal event; request-start is emitted only when no
\* request is open and opens the request that carries its fields; a terminal
\* event is emitted only for the open request and closes it, request-success
\* and request-fail carrying the fields of its request-start; and a request
\* is opened or closed by no other step
EventsWellBracketed ==
    [][LET starts == Named(emitted', {"request-start"})
           terms == Named(emitted', Terminal)
       IN /\ Len(starts) + Len(terms) <= 1
          /\ Len(starts) = 1 =>
                /\ inflight = <<>>
                /\ Len(inflight') = 1
                /\ inflight'[1].data = starts[1].data
          /\ Len(terms) = 1 =>
                /\ Len(inflight) = 1
                /\ inflight' = <<>>
                /\ terms[1].name \in {"request-success", "request-fail"} =>
                      terms[1].data = inflight[1].data
          /\ Len(inflight') # Len(inflight) =>
                Len(starts) + Len(terms) = 1]_vars

\* the request sent with a text field was answered with an error status and
\* request-fail carries that field
FailCarriesSentFields ==
    /\ lastOp = "response"
    /\ emitted = <<Event("request-fail", << <<Text, <<"h", "é">>>> >>, "",
                         404, 0)>>
    /\ inflight = <<>>

\* C34: the counters carried by repeater-stop are the numbers of requests
\* that resolved between the matching repeater-start and the stop.  For a
\* counted run that stops by itself, with no manual request sent during the
\* run (SpecManualFirst), these are the requests its ticks dispatched:
\* successCount + failCount of the event equals requestCount of the timer
RunReportCountsRunRequests ==
    [][NaturalStop =>
          emitted'[1].n1 + emitted'[1].n2 = timers[intervalID].requestCount]_vars

\* the timers that still fire
LiveTimers(tm) == {id \in DOMAIN tm : tm[id].live}

\* C35: at most one tick timer is live at any time, stopRepeater leaves none
\* live, and a tick dispatches a request only while the engine is repeating,
\* whatever the sequence of startRepeater and stopRepeater calls
NoTickAfterStop ==
    [][/\ Cardinality(LiveTimers(timers')) <= 1
       /\ lastOp' \in {"stopRepeater", "deferredStop"} =>
             LiveTimers(timers') = {}
       /\ (lastOp' = "tick" /\ Dispatched) => isRepeating]_vars

\* C36: the termination policy stops a run only because of a request that
\* this run dispatched.  A counted run records its dispatches in requestCount:
\* when a response, an 'error' or a deferred timeout stop stops a counted run,
\* the run has dispatched at least one request
PolicyStopOnlyForOwnRequest ==
    [][(/\ lastOp' \in {"response", "error", "deferredStop"}
        /\ isRepeating
        /\ HasStopEvent(emitted')
        /\ timers[intervalID].count > 0) =>
          timers[intervalID].requestCount > 0]_vars

\* C37: once a request of the repeater has timed out with ignoreTimeout
\* false, no tick dispatches a request: while the stopRepeater deferred by
\* the timeout is pending, a tick emits no request-start and creates no
\* request
NoDispatchBeforeDeferredStop ==
    [][(lastOp' = "tick" /\ deferred > 0) =>
          /\ ~Dispatched
          /\ Named(emitted', {"request-start"}) = <<>>]_vars

\* an argument list that names no complete pair: fewer than two items, or
\* an odd number of them
Unpaired(args) == Len(args) < 2 \/ Len(args) % 2 # 0

\* C32: editheaders, editdata and sendrequest given a list of odd length or
\* of fewer than two items log an error and change neither the stored
\* headers, nor the stored payload template, nor the runtime state of the
\* engine, and send no request
UnpairedListRejected ==
    [][/\ \A args \in CliLists(HeaderTokens) :
              Unpaired(args) /\ EditHeadersCall(args)
                  => /\ cli'.reported /\ ~cli'.threw
                     /\ UNCHANGED <<engine, requestData>>
       /\ \A args \in CliLists(DataTokens) :
              Unpaired(args)
              /\ (EditDataCall(args) \/ CliSendRequestCall(args))
                  => /\ cli'.reported /\ ~cli'.threw
                     /\ UNCHANGED <<engine, requestData>>]_vars

\* C38: removeheaders and removedata given a name that is not stored log an
\* error and remove nothing, the names that are stored included
RemoveMissingRemovesNothing ==
    [][/\ \A args \in CliLists(HeaderTokens) :
              (\E i \in 1..Len(args) :
                   args[i] \notin DOMAIN requestOptions["headers"])
              /\ RemoveHeadersCall(args)
                  => cli'.reported /\ requestOptions' = requestOptions
       /\ \A args \in CliLists(DataTokens) :
              (\E i \in 1..Len(args) : ~HasKey(requestData, args[i]))
              /\ RemoveDataCall(args)
                  => cli'.reported /\ requestData' = requestData]_vars

\* C39: the startrepeater command always completes: once the repeater it
\* started has stopped, for whatever reason, and no request is in flight, the
\* completion callback of the command has been invoked
StartRepeaterCommandCompletes ==
    (cli.commands > 0 /\ ~isRepeating /\ inflight = <<>>) => cli.completed >= 1

====
